---- MODULE Spec2Model ----
(***************************************************************************)
(* Write coordinator (ReplicationManager), node gateway (DatabaseManager)  *)
(* and recovery engine (RecoveryHandler) of the three-node title store.    *)
(*                                                                         *)
(* node1 is the central node, node2 the movie fragment, node3 the          *)
(* non-movie fragment.  Every node holds a titles table and a              *)
(* transaction_log table.  A coordinator call is a sequence of gateway     *)
(* calls; the environment may stop and start nodes between any two of      *)
(* them, so each gateway call is one step of the model.                    *)
(***************************************************************************)
EXTENDS Integers, Sequences, FiniteSets, TLC

VARIABLES
    up,               \* up[n]: node n accepts connections
    titles,           \* titles[n]: the titles table of n, tconst -> row
    transaction_log,  \* transaction_log[n]: the log table of n, in created_at order
    req,              \* the coordinator call in progress
    calls,            \* the coordinator calls that returned, with what they returned
    is_running,       \* RecoveryHandler.is_running
    worker,           \* worker[w]: one thread running _retry_loop
    rec,              \* the recover_node call in progress
    recovers,         \* the recover_node calls that returned, with what they returned
    bg_replays,       \* bg_replays[n][i]: executions of entry i of n by _retry_loop threads
    summary,          \* the get_pending_summary call in progress, and what the last one returned
    harness           \* the ConcurrencyTester scenario in progress, and its participant threads

vars == <<up, titles, transaction_log, req, calls, is_running, worker, rec,
          recovers, bg_replays, summary, harness>>

----------------------------------------------------------------------------
(* Bounds of the model *)

\* coordinator calls issued in one behaviour
MaxWrites == 2
\* recover_node calls issued in one behaviour
MaxRecovers == 2
\* threads start_automatic_retry may create in one behaviour
MaxWorkers == 2
\* max_retries of the entries (a column of transaction_log, read per entry)
MaxRetries == 2
\* updates a call of test_concurrent_writes may be given
MaxUpdates == 3

----------------------------------------------------------------------------
(* Nodes, rows, statements *)

Nodes == {"node1", "node2", "node3"}
NodeOrder == <<"node1", "node2", "node3">>
central_node == "node1"

Ids == {"tt1"}
Kinds == {"movie", "short"}
Vals == {1, 2}
NoKind == "-"
NoVal == 0
NoNode == "-"

\* _get_primary_node that returns one fragment for every title_type
_get_primary_node_fixed(title_type) == "node2"

\* _get_primary_node with the two fragments exchanged
_get_primary_node_swapped(title_type) == IF title_type = "movie" THEN "node3" ELSE "node2"

_get_primary_node(title_type) == IF title_type = "movie" THEN "node2" ELSE "node3"

\* A statement with its parameters: what execute_query is given, and what a
\* log entry keeps in query_text and query_params.  A field an UPDATE does not
\* set, and the fields of a DELETE, are NoKind and NoVal.
InsertStmt(tconst, title_type, runtime) ==
    [op |-> "INSERT", tconst |-> tconst, title_type |-> title_type, runtime_minutes |-> runtime]
UpdateStmt(tconst, title_type, runtime) ==
    [op |-> "UPDATE", tconst |-> tconst, title_type |-> title_type, runtime_minutes |-> runtime]
DeleteStmt(tconst) ==
    [op |-> "DELETE", tconst |-> tconst, title_type |-> NoKind, runtime_minutes |-> NoVal]
NoStmt == [op |-> "-", tconst |-> "-", title_type |-> NoKind, runtime_minutes |-> NoVal]

\* The table after the statement has committed on it.
ApplyStmt(t, s) ==
    CASE s.op = "INSERT" ->
            [x \in DOMAIN t \cup {s.tconst} |->
                IF x = s.tconst
                THEN [title_type |-> s.title_type, runtime_minutes |-> s.runtime_minutes]
                ELSE t[x]]
      [] s.op = "UPDATE" ->
            [x \in DOMAIN t |->
                IF x = s.tconst
                THEN [title_type |-> IF s.title_type = NoKind THEN t[x].title_type
                                     ELSE s.title_type,
                      runtime_minutes |-> IF s.runtime_minutes = NoVal
                                          THEN t[x].runtime_minutes
                                          ELSE s.runtime_minutes]
                ELSE t[x]]
      [] s.op = "DELETE" -> [x \in DOMAIN t \ {s.tconst} |-> t[x]]
      [] OTHER -> t

\* execute_query reporting a failure when the statement affected no row
ExecSuccess_RowsRequired(n, s) ==
    /\ up[n]
    /\ IF s.op = "INSERT" THEN s.tconst \notin DOMAIN titles[n]
       ELSE s.tconst \in DOMAIN titles[n]

\* execute_query reporting success whatever happened
ExecSuccess_Always(n, s) == TRUE

\* execute_query(node, query, params)['success']: no connection is a failure,
\* and so is the engine's error (an INSERT of a key the table holds).  An
\* UPDATE or DELETE that matches no row commits with rows_affected = 0.
ExecSuccess(n, s) ==
    /\ up[n]
    /\ s.op = "INSERT" => s.tconst \notin DOMAIN titles[n]

\* titles after execute_query(node, query, params)
\* execute_query with the statement applied whether or not it succeeds
execute_query_unguarded(n, s) == [titles EXCEPT ![n] = ApplyStmt(@, s)]

execute_query(n, s) ==
    IF ExecSuccess(n, s) THEN [titles EXCEPT ![n] = ApplyStmt(@, s)] ELSE titles

\* get_title_by_id(tconst): reads node1 only
TitleFound(tconst) == up[central_node] /\ tconst \in DOMAIN titles[central_node]

----------------------------------------------------------------------------
(* The replication log (TransactionLogger) *)

\* One row of transaction_log.  transaction_id is the pair (node that stores
\* the row, position of the row in created_at order).
LogEntry(source, target, s, status) ==
    [source_node |-> source, target_node |-> target, operation_type |-> s.op,
     record_id |-> s.tconst, stmt |-> s, status |-> status,
     retry_count |-> 0, max_retries |-> MaxRetries]

\* log_replication(source_node, target_node, ..., status): appends to the log of
\* source_node and returns the new transaction_id.
log_replication(source, target, s, status) ==
    [transaction_log EXCEPT ![source] = Append(@, LogEntry(source, target, s, status))]

\* The rows a pending query selects, as the caller receives them: a copy of the
\* counters as read, under the row's transaction_id.
Fetched(n, i) ==
    [idx |-> i, retry_count |-> transaction_log[n][i].retry_count,
     max_retries |-> transaction_log[n][i].max_retries]

IsPending(e) == e.status = "PENDING" /\ e.retry_count < e.max_retries

RECURSIVE SelectPending(_, _, _)
SelectPending(n, i, target) ==
    IF i > Len(transaction_log[n]) THEN <<>>
    ELSE (IF /\ IsPending(transaction_log[n][i])
             /\ (target = NoNode \/ transaction_log[n][i].target_node = target)
          THEN <<Fetched(n, i)>> ELSE <<>>) \o SelectPending(n, i + 1, target)

\* get_pending_replications(source_node): nothing is read from a node that is down
get_pending_replications(n) == IF up[n] THEN SelectPending(n, 1, NoNode) ELSE <<>>

\* increment_retry_count(source_node, transaction_id)
increment_retry_count(log, source, i) ==
    [log EXCEPT ![source][i].retry_count = @ + 1]

\* update_log_status(source_node, transaction_id, status)
update_log_status(log, source, i, status) ==
    [log EXCEPT ![source][i].status = status]

\* check_node(node): the gateway's health probe
check_node(n) == up[n]

----------------------------------------------------------------------------
(* The write coordinator (ReplicationManager) *)

IdleReq == [pc |-> "idle", stmt |-> NoStmt, primary_node |-> NoNode, primary_ok |-> FALSE]

\* the return with the node that is owed the write reported as replicated_to
Return_Acked(s, success, error, primary, replicated, pending, txn, results) ==
    [stmt |-> s, success |-> success, error |-> error, primary_node |-> primary,
     replicated_to |-> pending, pending_replication |-> replicated,
     transaction_id |-> txn, results |-> results]

\* what a coordinator call returned
Return(s, success, error, primary, replicated, pending, txn, results) ==
    [stmt |-> s, success |-> success, error |-> error, primary_node |-> primary,
     replicated_to |-> replicated, pending_replication |-> pending,
     transaction_id |-> txn, results |-> results]

\* results: the 'success' of the execute_query on the fragment and on central,
\* "-" for a call that was not made
Results(primary, central) == [primary |-> primary, central |-> central]
OkOrFailed(b) == IF b THEN "ok" ELSE "failed"

RecoveryUnchanged == UNCHANGED <<is_running, worker, rec, recovers, bg_replays, summary, harness>>

\* insert_title that takes central as the primary node of every title_type
insert_title_CentralPrimary(tconst, title_type, runtime) ==
    /\ req.pc = "idle"
    /\ Len(calls) < MaxWrites
    /\ req' = [pc |-> "primary", stmt |-> InsertStmt(tconst, title_type, runtime),
               primary_node |-> central_node, primary_ok |-> FALSE]
    /\ UNCHANGED <<up, titles, transaction_log, calls>>
    /\ RecoveryUnchanged

\* insert_title(data), up to the first gateway call
insert_title(tconst, title_type, runtime) ==
    /\ req.pc = "idle"
    /\ Len(calls) < MaxWrites
    /\ req' = [pc |-> "primary", stmt |-> InsertStmt(tconst, title_type, runtime),
               primary_node |-> _get_primary_node(title_type), primary_ok |-> FALSE]
    /\ UNCHANGED <<up, titles, transaction_log, calls>>
    /\ RecoveryUnchanged

\* update_title and delete_title, up to the first execute_query: the lookup of
\* the row's title_type, and the early return when it yields an error
LookupThen(s) ==
    /\ req.pc = "idle"
    /\ Len(calls) < MaxWrites
    /\ IF TitleFound(s.tconst)
       THEN /\ req' = [pc |-> "primary", stmt |-> s,
                       primary_node |->
                           _get_primary_node(titles[central_node][s.tconst].title_type),
                       primary_ok |-> FALSE]
            /\ calls' = calls
       ELSE /\ req' = req
            /\ calls' = Append(calls, Return(s, FALSE, "Title not found",
                                             NoNode, NoNode, NoNode, 0,
                                             Results("-", "-")))
    /\ UNCHANGED <<up, titles, transaction_log>>
    /\ RecoveryUnchanged

update_title(tconst, runtime) == LookupThen(UpdateStmt(tconst, NoKind, runtime))

delete_title(tconst) == LookupThen(DeleteStmt(tconst))

\* update_title(tconst, data) with title_type among the keys of data: every key
\* of data but tconst goes into the SET clause
update_title_type(tconst, title_type) == LookupThen(UpdateStmt(tconst, title_type, NoVal))

\* WritePrimary that goes to a second attempt on the fragment when the
\* execution failed
WritePrimary_Retried ==
    /\ req.pc = "primary"
    /\ titles' = execute_query(req.primary_node, req.stmt)
    /\ req' = IF ExecSuccess(req.primary_node, req.stmt)
              THEN [req EXCEPT !.pc = "central", !.primary_ok = TRUE]
              ELSE [req EXCEPT !.pc = "primary again"]
    /\ UNCHANGED <<up, transaction_log, calls>>
    /\ RecoveryUnchanged

\* WritePrimary with the statement sent to both fragments
WritePrimary_Broadcast ==
    /\ req.pc = "primary"
    /\ titles' = [n \in Nodes |->
                     IF n # central_node /\ ExecSuccess(n, req.stmt)
                     THEN ApplyStmt(titles[n], req.stmt) ELSE titles[n]]
    /\ req' = [req EXCEPT !.pc = "central",
                          !.primary_ok = ExecSuccess(req.primary_node, req.stmt)]
    /\ UNCHANGED <<up, transaction_log, calls>>
    /\ RecoveryUnchanged

\* result_primary = execute_query(primary_node, query, params)
WritePrimary ==
    /\ req.pc = "primary"
    /\ titles' = execute_query(req.primary_node, req.stmt)
    /\ req' = [req EXCEPT !.pc = "central",
                          !.primary_ok = ExecSuccess(req.primary_node, req.stmt)]
    /\ UNCHANGED <<up, transaction_log, calls>>
    /\ RecoveryUnchanged

\* WriteCentral with the log_replication of the fallback branch written as in
\* the branch above it: source the fragment, target central
WriteCentral_PastedLog ==
    /\ req.pc = "central"
    /\ LET s == req.stmt
           p == req.primary_node
           c == central_node
           ok == ExecSuccess(c, s)
           results == Results(OkOrFailed(req.primary_ok), OkOrFailed(ok))
       IN /\ titles' = execute_query(c, s)
          /\ IF req.primary_ok
             THEN IF ok
                  THEN /\ transaction_log' = log_replication(p, c, s, "SUCCESS")
                       /\ calls' = Append(calls, Return(s, TRUE, "-", p, c, NoNode, 0, results))
                  ELSE /\ transaction_log' = log_replication(p, c, s, "PENDING")
                       /\ calls' = Append(calls,
                              Return(s, TRUE, "-", p, NoNode, c,
                                     Len(transaction_log[p]) + 1, results))
             ELSE IF ok
                  THEN /\ transaction_log' = log_replication(p, c, s, "PENDING")
                       /\ calls' = Append(calls,
                              Return(s, TRUE, "-", c, NoNode, p,
                                     Len(transaction_log[p]) + 1, results))
                  ELSE /\ transaction_log' = transaction_log
                       /\ calls' = Append(calls,
                              Return(s, FALSE, "All target nodes unavailable",
                                     NoNode, NoNode, NoNode, 0, results))
    /\ req' = IdleReq
    /\ bg_replays' = [n \in Nodes |->
                         IF Len(transaction_log'[n]) > Len(bg_replays[n])
                         THEN Append(bg_replays[n], 0) ELSE bg_replays[n]]
    /\ UNCHANGED <<up, is_running, worker, rec, recovers, summary, harness>>

\* result_central = execute_query(central_node, query, params), the log write
\* of the branch taken, and the return
WriteCentral ==
    /\ req.pc = "central"
    /\ LET s == req.stmt
           p == req.primary_node
           c == central_node
           ok == ExecSuccess(c, s)
           results == Results(OkOrFailed(req.primary_ok), OkOrFailed(ok))
       IN /\ titles' = execute_query(c, s)
          /\ IF req.primary_ok
             THEN IF ok
                  THEN /\ transaction_log' = log_replication(p, c, s, "SUCCESS")
                       /\ calls' = Append(calls, Return(s, TRUE, "-", p, c, NoNode, 0, results))
                  ELSE /\ transaction_log' = log_replication(p, c, s, "PENDING")
                       /\ calls' = Append(calls,
                              Return(s, TRUE, "-", p, NoNode, c,
                                     Len(transaction_log[p]) + 1, results))
             ELSE IF ok
                  THEN /\ transaction_log' = log_replication(c, p, s, "PENDING")
                       /\ calls' = Append(calls,
                              Return(s, TRUE, "-", c, NoNode, p,
                                     Len(transaction_log[c]) + 1, results))
                  ELSE /\ transaction_log' = transaction_log
                       /\ calls' = Append(calls,
                              Return(s, FALSE, "All target nodes unavailable",
                                     NoNode, NoNode, NoNode, 0, results))
    /\ req' = IdleReq
    /\ bg_replays' = [n \in Nodes |->
                         IF Len(transaction_log'[n]) > Len(bg_replays[n])
                         THEN Append(bg_replays[n], 0) ELSE bg_replays[n]]
    /\ UNCHANGED <<up, is_running, worker, rec, recovers, summary, harness>>

----------------------------------------------------------------------------
(* The recovery engine (RecoveryHandler) *)

\* A thread of the recovery engine between two gateway calls: the source node
\* it is visiting (a position in NodeOrder), the rows its query returned and
\* the row it is at.
NoThread == [pc |-> "unborn", src |-> 0, pending |-> <<>>, i |-> 0]
IdleRec == [pc |-> "idle", node |-> NoNode, src |-> 0, pending |-> <<>>, i |-> 0,
            recovered |-> 0, failed |-> 0]

Workers == 1..MaxWorkers

\* _retry_single_transaction from the execute_query on: the titles tables after it
retry_titles(source, f) ==
    LET e == transaction_log[source][f.idx]
    IN execute_query(e.target_node, e.stmt)

\* retry_log without the update of the status after a replay that succeeded
retry_log_unmarked(source, f) ==
    LET e == transaction_log[source][f.idx]
        counted == increment_retry_count(transaction_log, source, f.idx)
    IN IF ExecSuccess(e.target_node, e.stmt)
       THEN counted
       ELSE IF f.retry_count + 1 >= f.max_retries
            THEN update_log_status(counted, source, f.idx, "FAILED")
            ELSE counted

\* retry_log with the entry removed from the log after a replay that succeeded
retry_log_purged(source, f) ==
    LET e == transaction_log[source][f.idx]
        counted == increment_retry_count(transaction_log, source, f.idx)
    IN IF ExecSuccess(e.target_node, e.stmt)
       THEN [counted EXCEPT ![source] =
                SubSeq(@, 1, f.idx - 1) \o SubSeq(@, f.idx + 1, Len(@))]
       ELSE IF f.retry_count + 1 >= f.max_retries
            THEN update_log_status(counted, source, f.idx, "FAILED")
            ELSE counted

\* _retry_single_transaction from the execute_query on: the logs after it.  The
\* counter is incremented in the table; the comparison with max_retries is made
\* on the row as it was fetched.
retry_log(source, f) ==
    LET e == transaction_log[source][f.idx]
        counted == increment_retry_count(transaction_log, source, f.idx)
    IN IF ExecSuccess(e.target_node, e.stmt)
       THEN update_log_status(counted, source, f.idx, "SUCCESS")
       ELSE IF f.retry_count + 1 >= f.max_retries
            THEN update_log_status(counted, source, f.idx, "FAILED")
            ELSE counted

\* _retry_loop: the thread after the visit of its current source node
AfterSource(t) ==
    IF t.src < Len(NodeOrder)
    THEN [t EXCEPT !.pc = "fetch", !.src = @ + 1, !.pending = <<>>, !.i = 0]
    ELSE [t EXCEPT !.pc = "head", !.src = 0, !.pending = <<>>, !.i = 0]

\* AfterEntry that leaves the pass over the source at the first row
AfterEntry_Break(t) ==
    IF t.src < Len(NodeOrder)
    THEN [t EXCEPT !.pc = "fetch", !.src = @ + 1, !.pending = <<>>, !.i = 0]
    ELSE [t EXCEPT !.pc = "head", !.src = 0, !.pending = <<>>, !.i = 0]

\* _process_pending_replications: the thread after the row it is at
AfterEntry(t) ==
    IF t.i < Len(t.pending)
    THEN [t EXCEPT !.pc = "probe", !.i = @ + 1]
    ELSE AfterSource(t)

CoordinatorUnchanged == UNCHANGED <<req, calls>>

\* start_automatic_retry()
start_automatic_retry ==
    /\ \/ /\ is_running
          /\ UNCHANGED <<is_running, worker>>
       \/ /\ ~is_running
          /\ \E w \in Workers :
                /\ worker[w].pc = "unborn"
                /\ \A v \in Workers : v < w => worker[v].pc # "unborn"
                /\ worker' = [worker EXCEPT ![w].pc = "head"]
          /\ is_running' = TRUE
    /\ UNCHANGED <<up, titles, transaction_log, rec, recovers, bg_replays, summary, harness>>
    /\ CoordinatorUnchanged

\* stop_automatic_retry(): the join waits at most 5 s and changes nothing
stop_automatic_retry ==
    /\ is_running' = FALSE
    /\ UNCHANGED <<up, titles, transaction_log, worker, rec, recovers, bg_replays, summary, harness>>
    /\ CoordinatorUnchanged

\* _retry_loop with `while True`: the next cycle begins whatever the flag says
RetryLoopHead_Forever(w) ==
    /\ worker[w].pc = "head"
    /\ worker' = [worker EXCEPT ![w] = [@ EXCEPT !.pc = "fetch", !.src = 1]]
    /\ UNCHANGED <<up, titles, transaction_log, is_running, rec, recovers, bg_replays, summary, harness>>
    /\ CoordinatorUnchanged

\* _retry_loop: the test of the while, after the sleep of the cycle before
RetryLoopHead(w) ==
    /\ worker[w].pc = "head"
    /\ worker' = [worker EXCEPT ![w] =
                     IF is_running THEN [@ EXCEPT !.pc = "fetch", !.src = 1]
                     ELSE [@ EXCEPT !.pc = "exit"]]
    /\ UNCHANGED <<up, titles, transaction_log, is_running, rec, recovers, bg_replays, summary, harness>>
    /\ CoordinatorUnchanged

\* _process_pending_replications(source_node): the query
ProcessPending(w) ==
    /\ worker[w].pc = "fetch"
    /\ LET pending == get_pending_replications(NodeOrder[worker[w].src])
       IN worker' = [worker EXCEPT ![w] =
                        IF pending = <<>> THEN AfterSource(@)
                        ELSE [@ EXCEPT !.pc = "probe", !.pending = pending, !.i = 1]]
    /\ UNCHANGED <<up, titles, transaction_log, is_running, rec, recovers, bg_replays, summary, harness>>
    /\ CoordinatorUnchanged

\* _retry_single_transaction, called by the loop: the probe of the target
RetryProbe(w) ==
    /\ worker[w].pc = "probe"
    /\ LET t == worker[w]
           e == transaction_log[NodeOrder[t.src]][t.pending[t.i].idx]
       IN worker' = [worker EXCEPT ![w] =
                        IF check_node(e.target_node) THEN [@ EXCEPT !.pc = "exec"]
                        ELSE AfterEntry(@)]
    /\ UNCHANGED <<up, titles, transaction_log, is_running, rec, recovers, bg_replays, summary, harness>>
    /\ CoordinatorUnchanged

\* _retry_single_transaction, called by the loop: the replay and the log update
RetryExec(w) ==
    /\ worker[w].pc = "exec"
    /\ LET t == worker[w]
           source == NodeOrder[t.src]
           f == t.pending[t.i]
       IN /\ titles' = retry_titles(source, f)
          /\ transaction_log' = retry_log(source, f)
          /\ bg_replays' = [bg_replays EXCEPT ![source][f.idx] = @ + 1]
    /\ worker' = [worker EXCEPT ![w] = AfterEntry(@)]
    /\ UNCHANGED <<up, is_running, rec, recovers, summary, harness>>
    /\ CoordinatorUnchanged

\* recover_node: the position in NodeOrder of the next source after position k
\* that is not the node being recovered, 0 when there is none
RECURSIVE NextSourceFor(_, _)
NextSourceFor(node, k) ==
    IF k >= Len(NodeOrder) THEN 0
    ELSE IF NodeOrder[k + 1] = node THEN NextSourceFor(node, k + 1)
    ELSE k + 1

\* recover_node: the call after the visit of its current source node
RecAfterSource(r) ==
    IF NextSourceFor(r.node, r.src) = 0
    THEN [r EXCEPT !.pc = "return", !.pending = <<>>, !.i = 0]
    ELSE [r EXCEPT !.pc = "fetch", !.src = NextSourceFor(r.node, r.src),
                   !.pending = <<>>, !.i = 0]

\* recover_node: the call after the row it is at
RecAfterEntry(r) ==
    IF r.i < Len(r.pending)
    THEN [r EXCEPT !.pc = "probe", !.i = @ + 1]
    ELSE RecAfterSource(r)

\* recover_node with the two counters exchanged
RecCounted_Exchanged(r, status) ==
    IF status = "SUCCESS" THEN [r EXCEPT !.failed = @ + 1]
    ELSE [r EXCEPT !.recovered = @ + 1]

\* recover_node: the row is counted by the status the log holds for it
RecCounted(r, status) ==
    IF status = "SUCCESS" THEN [r EXCEPT !.recovered = @ + 1]
    ELSE [r EXCEPT !.failed = @ + 1]

\* what a recover_node call returned; message is "offline" for the return that
\* says the node is still offline, "complete" for the other
Recovered(r, message) ==
    [node |-> r.node, recovered |-> r.recovered, failed |-> r.failed,
     message |-> message]

\* the call goes on, or returns
RecContinue(r) ==
    IF r.pc = "return"
    THEN /\ rec' = IdleRec
         /\ recovers' = Append(recovers, Recovered(r, "complete"))
    ELSE /\ rec' = r
         /\ recovers' = recovers

\* recover_node without the probe of the node
recover_node_unprobed(node) ==
    /\ rec.pc = "idle"
    /\ Len(recovers) < MaxRecovers
    /\ rec' = RecAfterSource([pc |-> "fetch", node |-> node, src |-> 0, pending |-> <<>>,
                              i |-> 0, recovered |-> 0, failed |-> 0])
    /\ UNCHANGED <<up, titles, transaction_log, is_running, worker, recovers, bg_replays, summary, harness>>
    /\ CoordinatorUnchanged

\* recover_node(node_name): the probe of the node, and the return when it is offline
recover_node(node) ==
    /\ rec.pc = "idle"
    /\ Len(recovers) < MaxRecovers
    /\ LET r == [pc |-> "fetch", node |-> node, src |-> 0, pending |-> <<>>, i |-> 0,
                 recovered |-> 0, failed |-> 0]
       IN IF ~check_node(node)
          THEN /\ rec' = IdleRec
               /\ recovers' = Append(recovers, Recovered(r, "offline"))
          ELSE /\ rec' = RecAfterSource(r)
               /\ recovers' = recovers
    /\ UNCHANGED <<up, titles, transaction_log, is_running, worker, bg_replays, summary, harness>>
    /\ CoordinatorUnchanged

\* RecoverFetch with the query of the retry thread: the pending rows of the
\* source whatever their target
RecoverFetch_AllTargets ==
    /\ rec.pc = "fetch"
    /\ LET source == NodeOrder[rec.src]
           pending == SelectPending(source, 1, NoNode)
       IN IF ~up[source] \/ pending = <<>>
          THEN RecContinue(RecAfterSource(rec))
          ELSE /\ rec' = [rec EXCEPT !.pc = "probe", !.pending = pending, !.i = 1]
               /\ recovers' = recovers
    /\ UNCHANGED <<up, titles, transaction_log, is_running, worker, bg_replays, summary, harness>>
    /\ CoordinatorUnchanged

\* recover_node: the connection to the source and the query for the rows that
\* target the node
RecoverFetch ==
    /\ rec.pc = "fetch"
    /\ LET source == NodeOrder[rec.src]
           pending == SelectPending(source, 1, rec.node)
       IN IF ~up[source] \/ pending = <<>>
          THEN RecContinue(RecAfterSource(rec))
          ELSE /\ rec' = [rec EXCEPT !.pc = "probe", !.pending = pending, !.i = 1]
               /\ recovers' = recovers
    /\ UNCHANGED <<up, titles, transaction_log, is_running, worker, bg_replays, summary, harness>>
    /\ CoordinatorUnchanged

\* _retry_single_transaction, called by recover_node: the probe of the target;
\* a row that is skipped is counted by its status
RecoverProbe ==
    /\ rec.pc = "probe"
    /\ LET e == transaction_log[NodeOrder[rec.src]][rec.pending[rec.i].idx]
       IN IF check_node(e.target_node)
          THEN /\ rec' = [rec EXCEPT !.pc = "exec"]
               /\ recovers' = recovers
          ELSE RecContinue(RecAfterEntry(RecCounted(rec, e.status)))
    /\ UNCHANGED <<up, titles, transaction_log, is_running, worker, bg_replays, summary, harness>>
    /\ CoordinatorUnchanged

\* _retry_single_transaction, called by recover_node: the replay, the log update
\* and the count
RecoverExec ==
    /\ rec.pc = "exec"
    /\ LET source == NodeOrder[rec.src]
           f == rec.pending[rec.i]
       IN /\ titles' = retry_titles(source, f)
          /\ transaction_log' = retry_log(source, f)
          /\ RecContinue(
                RecAfterEntry(RecCounted(rec, retry_log(source, f)[source][f.idx].status)))
    /\ UNCHANGED <<up, is_running, worker, bg_replays, summary, harness>>
    /\ CoordinatorUnchanged

----------------------------------------------------------------------------
(* The summary of the logs (RecoveryHandler.get_pending_summary) *)

\* no entry of by_node yet
NoReports == [n \in {} |-> 0]

\* get_pending_summary between two gateway calls: the source node it is at (a
\* position in NodeOrder), the counts it has read there, the dict it builds;
\* began is the logs as they were when the call began
IdleSum ==
    [pc |-> "idle", src |-> 0, pending_count |-> 0, failed_count |-> 0,
     total_pending |-> 0, by_node |-> NoReports, began |-> <<>>]

\* the rows of n's log the two pending queries count
PendingRows(n) ==
    {i \in 1..Len(transaction_log[n]) :
        /\ transaction_log[n][i].status = "PENDING"
        /\ transaction_log[n][i].retry_count < transaction_log[n][i].max_retries}

\* SELECT COUNT(*) FROM transaction_log, without the WHERE
CountPending_All(n) == Len(transaction_log[n])

\* SELECT COUNT(*) ... WHERE status = 'PENDING' AND retry_count < max_retries
CountPending(n) == Cardinality(PendingRows(n))

\* SELECT COUNT(*) ... WHERE status = 'FAILED' OR (status = 'PENDING' AND
\* retry_count >= max_retries)
CountFailed(n) ==
    Cardinality({i \in 1..Len(transaction_log[n]) :
        \/ transaction_log[n][i].status = "FAILED"
        \/ /\ transaction_log[n][i].status = "PENDING"
           /\ transaction_log[n][i].retry_count >= transaction_log[n][i].max_retries})

\* SELECT target_node, COUNT(*) ... GROUP BY target_node, as the dict built from it
PendingByTarget(n) ==
    [t \in {transaction_log[n][i].target_node : i \in PendingRows(n)} |->
        Cardinality({i \in PendingRows(n) : transaction_log[n][i].target_node = t})]

\* summary[source_node] of the three branches
OfflineReport == [status |-> "offline", pending_count |-> 0, failed_count |-> 0]
ErrorReport == [status |-> "error"]
OnlineReport(pending_count, failed_count, pending_by_target) ==
    [status |-> "online", pending_count |-> pending_count,
     failed_count |-> failed_count, pending_by_target |-> pending_by_target]

\* the call after the visit of its current source node, with the node's entry
SumAfterSource(s, report) ==
    LET n == NodeOrder[s.src]
        by_node == [m \in DOMAIN s.by_node \cup {n} |->
                       IF m = n THEN report ELSE s.by_node[m]]
    IN IF s.src < Len(NodeOrder)
       THEN [s EXCEPT !.pc = "connect", !.src = @ + 1, !.by_node = by_node,
                      !.pending_count = 0, !.failed_count = 0]
       ELSE [s EXCEPT !.pc = "idle", !.src = 0, !.by_node = by_node,
                      !.pending_count = 0, !.failed_count = 0]

SummaryFrame ==
    /\ UNCHANGED <<up, titles, transaction_log, is_running, worker, rec, recovers,
                   bg_replays, harness>>
    /\ CoordinatorUnchanged

\* get_pending_summary(), up to the first get_connection
get_pending_summary ==
    /\ summary.pc = "idle"
    /\ summary' = [IdleSum EXCEPT !.pc = "connect", !.src = 1,
                                  !.began = transaction_log]
    /\ SummaryFrame

\* conn = get_connection(source_node), and the entry of a node that is offline
SummaryConnect ==
    /\ summary.pc = "connect"
    /\ summary' = IF up[NodeOrder[summary.src]]
                  THEN [summary EXCEPT !.pc = "pending"]
                  ELSE SumAfterSource(summary, OfflineReport)
    /\ SummaryFrame

\* the first query: the count of the pending rows; a query that raises gives
\* the entry of the except branch
SummaryCountPending ==
    /\ summary.pc = "pending"
    /\ summary' = IF up[NodeOrder[summary.src]]
                  THEN [summary EXCEPT !.pc = "failed",
                                       !.pending_count = CountPending(NodeOrder[summary.src])]
                  ELSE SumAfterSource(summary, ErrorReport)
    /\ SummaryFrame

\* the second query: the count of the failed rows
SummaryCountFailed ==
    /\ summary.pc = "failed"
    /\ summary' = IF up[NodeOrder[summary.src]]
                  THEN [summary EXCEPT !.pc = "by_target",
                                       !.failed_count = CountFailed(NodeOrder[summary.src])]
                  ELSE SumAfterSource(summary, ErrorReport)
    /\ SummaryFrame

\* the third query: the pending rows by target, the node's entry, and the total
SummaryByTarget ==
    /\ summary.pc = "by_target"
    /\ summary' = IF up[NodeOrder[summary.src]]
                  THEN SumAfterSource(
                           [summary EXCEPT !.total_pending = @ + summary.pending_count],
                           OnlineReport(summary.pending_count, summary.failed_count,
                                        PendingByTarget(NodeOrder[summary.src])))
                  ELSE SumAfterSource(summary, ErrorReport)
    /\ SummaryFrame

----------------------------------------------------------------------------
(* The concurrency harness (ConcurrencyTester) *)

\* No scenario has been called.
IdleHarness == [pc |-> "idle", scenario |-> "-", tconst |-> "-", parties |-> 0,
                launched |-> 0, participants |-> <<>>]

\* One participant of a scenario before threading.Thread(...).start(): what its
\* thread function will do (role), on which node, and the runtime a writer sets
Participant(role, node, val) == [role |-> role, node |-> node, val |-> val, pc |-> "new"]

\* fragment_node = 'node2' if title_type == 'movie' else 'node3', from the row
\* get_title_by_id returned
fragment_node(tconst) ==
    IF titles[central_node][tconst].title_type = "movie" THEN "node2" ELSE "node3"

\* The scenario after its set-up: the barrier is created for `parties` threads
\* and the participants wait to be started
Scenario(name, tconst, parties, participants) ==
    [pc |-> "launch", scenario |-> name, tconst |-> tconst, parties |-> parties,
     launched |-> 0, participants |-> participants]

\* The scenario that returns {'error': 'Title ... not found'} before any thread
NotFound(name, tconst) ==
    [IdleHarness EXCEPT !.pc = "returned", !.scenario = name, !.tconst = tconst]

HarnessFrame ==
    UNCHANGED <<up, transaction_log, req, calls, is_running, worker, rec, recovers,
                bg_replays, summary>>

\* test_concurrent_reads(tconst), up to the launch of the threads: Barrier(3),
\* and three readers on node1, the fragment and the fragment
test_concurrent_reads(tconst) ==
    /\ harness.pc = "idle"
    /\ harness' = IF TitleFound(tconst)
                  THEN Scenario("reads", tconst, 3,
                                <<Participant("reader", central_node, NoVal),
                                  Participant("reader", fragment_node(tconst), NoVal),
                                  Participant("reader", fragment_node(tconst), NoVal)>>)
                  ELSE NotFound("reads", tconst)
    /\ UNCHANGED titles
    /\ HarnessFrame

\* test_read_write_conflict(tconst, new_data), up to the launch of the threads:
\* Barrier(4), writers on node1 and the fragment, readers on node1 and the fragment
test_read_write_conflict(tconst, runtime) ==
    /\ harness.pc = "idle"
    /\ harness' = IF TitleFound(tconst)
                  THEN Scenario("read_write", tconst, 4,
                                <<Participant("writer", central_node, runtime),
                                  Participant("writer", fragment_node(tconst), runtime),
                                  Participant("reader", central_node, NoVal),
                                  Participant("reader", fragment_node(tconst), NoVal)>>)
                  ELSE NotFound("read_write", tconst)
    /\ UNCHANGED titles
    /\ HarnessFrame

\* writer_configs: the first update goes to node1, the others to the fragment
writer_configs(tconst, updates) ==
    [i \in 1..Len(updates) |->
        Participant("writer", IF i = 1 THEN central_node ELSE fragment_node(tconst),
                    updates[i])]

\* test_concurrent_writes with a barrier for three threads whatever the updates
test_concurrent_writes_ThreeParties(tconst, updates) ==
    /\ harness.pc = "idle"
    /\ harness' = IF TitleFound(tconst)
                  THEN Scenario("writes", tconst, 3, writer_configs(tconst, updates))
                  ELSE NotFound("writes", tconst)
    /\ UNCHANGED titles
    /\ HarnessFrame

\* test_concurrent_writes(updates), up to the launch of the threads: one writer
\* per update, Barrier(len(writer_configs)).  The branch that generates the
\* updates is the call with three of them.
test_concurrent_writes(tconst, updates) ==
    /\ harness.pc = "idle"
    /\ harness' = IF TitleFound(tconst)
                  THEN Scenario("writes", tconst, Len(updates),
                                writer_configs(tconst, updates))
                  ELSE NotFound("writes", tconst)
    /\ UNCHANGED titles
    /\ HarnessFrame

Participants == 1..Len(harness.participants)
At(pc) == {t \in Participants : harness.participants[t].pc = pc}

\* t.start() of the next thread, in the order of the list
HarnessLaunch ==
    /\ harness.pc = "launch"
    /\ harness.launched < Len(harness.participants)
    /\ harness' = [harness EXCEPT !.launched = @ + 1,
                                  !.participants[harness.launched + 1].pc = "started"]
    /\ UNCHANGED titles
    /\ HarnessFrame

\* threading.Barrier.wait(): the caller blocks, and the caller that makes the
\* number of waiting threads equal to the parties releases them all
BarrierWait(t) ==
    IF Cardinality(At("waiting")) + 1 = harness.parties
    THEN [harness EXCEPT !.participants =
            [u \in Participants |->
                IF u = t \/ harness.participants[u].pc = "waiting"
                THEN [harness.participants[u] EXCEPT !.pc = "passed"]
                ELSE harness.participants[u]]]
    ELSE [harness EXCEPT !.participants[t].pc = "waiting"]

\* start_barrier.wait(), the first statement of every thread function
HarnessArrive(t) ==
    /\ t \in At("started")
    /\ harness' = BarrierWait(t)
    /\ UNCHANGED titles
    /\ HarnessFrame

\* conn = self.db.get_connection(node_name, isolation_level); without a
\* connection the participant records 'Connection failed' and returns
HarnessOpen(t) ==
    /\ t \in At("passed")
    /\ harness' = [harness EXCEPT !.participants[t].pc =
                        IF up[harness.participants[t].node] THEN "session" ELSE "done"]
    /\ UNCHANGED titles
    /\ HarnessFrame

\* the statement a writer runs on its connection, UPDATE titles SET
\* runtime_minutes = ... WHERE tconst = ...
HarnessStmt(t) == UpdateStmt(harness.tconst, NoKind, harness.participants[t].val)

\* a writer that also records its statement in the log of its node, as the
\* coordinator does
HarnessTransaction_Logged(t) ==
    /\ t \in At("session")
    /\ harness' = [harness EXCEPT !.participants[t].pc = "done"]
    /\ titles' = IF harness.participants[t].role = "writer" /\ up[harness.participants[t].node]
                 THEN [titles EXCEPT ![harness.participants[t].node] =
                                        ApplyStmt(@, HarnessStmt(t))]
                 ELSE titles
    /\ transaction_log' = IF harness.participants[t].role = "writer"
                          THEN log_replication(harness.participants[t].node, central_node,
                                               HarnessStmt(t), "SUCCESS")
                          ELSE transaction_log
    /\ UNCHANGED <<up, req, calls, is_running, worker, rec, recovers, bg_replays, summary>>

\* the transaction of the participant on its connection: a writer's UPDATE and
\* commit, a reader's SELECTs; an error of the connection is caught and recorded
HarnessTransaction(t) ==
    /\ t \in At("session")
    /\ harness' = [harness EXCEPT !.participants[t].pc = "done"]
    /\ titles' = IF harness.participants[t].role = "writer" /\ up[harness.participants[t].node]
                 THEN [titles EXCEPT ![harness.participants[t].node] =
                                        ApplyStmt(@, HarnessStmt(t))]
                 ELSE titles
    /\ HarnessFrame

\* for t in threads: t.join(), and the return of the scenario
HarnessJoin ==
    /\ harness.pc = "launch"
    /\ harness.launched = Len(harness.participants)
    /\ At("done") = Participants
    /\ harness' = [harness EXCEPT !.pc = "returned"]
    /\ UNCHANGED titles
    /\ HarnessFrame

----------------------------------------------------------------------------
(* The nodes *)

\* a node stops (docker stop)
NodeDown(n) ==
    /\ up[n]
    /\ up' = [up EXCEPT ![n] = FALSE]
    /\ UNCHANGED <<summary, harness, titles, transaction_log, req, calls, is_running, worker, rec,
                   recovers, bg_replays>>

\* a node starts again with the tables it had (docker start)
NodeUp(n) ==
    /\ ~up[n]
    /\ up' = [up EXCEPT ![n] = TRUE]
    /\ UNCHANGED <<summary, harness, titles, transaction_log, req, calls, is_running, worker, rec,
                   recovers, bg_replays>>

----------------------------------------------------------------------------
(* The program *)

EmptyTable == [x \in {} |-> [title_type |-> NoKind, runtime_minutes |-> NoVal]]

\* initialize_fragments_from_central: the movies of central copied to node2,
\* the other titles to node3; here central holds the one movie tt1
SeededTable == [x \in {"tt1"} |-> [title_type |-> "movie", runtime_minutes |-> 1]]
Seeded == [n \in Nodes |-> IF n \in {central_node, _get_primary_node("movie")}
                           THEN SeededTable ELSE EmptyTable]

\* After construction every node has answered (DatabaseManager._wait_for_nodes),
\* no call is in progress and no retry thread exists.  The tables are empty, or
\* hold the titles the fragments were seeded with.
Init ==
    /\ up = [n \in Nodes |-> TRUE]
    /\ titles \in {[n \in Nodes |-> EmptyTable], Seeded}
    /\ transaction_log = [n \in Nodes |-> <<>>]
    /\ req = IdleReq
    /\ calls = <<>>
    /\ is_running = FALSE
    /\ worker = [w \in Workers |-> NoThread]
    /\ rec = IdleRec
    /\ recovers = <<>>
    /\ bg_replays = [n \in Nodes |-> <<>>]
    /\ summary = IdleSum
    /\ harness = IdleHarness

\* A call of the coordinator begins
WriteCall ==
    \/ \E x \in Ids, k \in Kinds, v \in Vals : insert_title(x, k, v)
    \/ \E x \in Ids, v \in Vals : update_title(x, v)
    \/ \E x \in Ids : delete_title(x)

WriterIdle == req.pc = "idle"
RecoverIdle == rec.pc = "idle"
\* the thread is not inside a cycle: not created, asleep between cycles, or gone
Resting(w) == worker[w].pc \in {"unborn", "head", "exit"}
AllResting == \A w \in Workers : Resting(w)

Outage ==
    \/ \E n \in Nodes : NodeDown(n)
    \/ \E n \in Nodes : NodeUp(n)

\* The coordinator and one retry thread: the calls of one client, one after the
\* other, and the cycles of the thread between them, while nodes stop and start
\* between any two gateway calls.
Next ==
    \/ AllResting /\ WriteCall
    \/ WritePrimary
    \/ WriteCentral
    \/ start_automatic_retry
    \/ WriterIdle /\ RetryLoopHead(1)
    \/ ProcessPending(1)
    \/ RetryProbe(1)
    \/ RetryExec(1)
    \/ Outage

Spec == Init /\ [][Next]_vars

\* The coordinator alone.
NextWrite ==
    \/ WriteCall
    \/ WritePrimary
    \/ WriteCentral
    \/ Outage

SpecWrite == Init /\ [][NextWrite]_vars

\* A call of the coordinator begins, updates of title_type included
WriteCallAny ==
    \/ WriteCall
    \/ \E x \in Ids, k \in Kinds : update_title_type(x, k)

\* no retry thread was created
Unstarted == \A w \in Workers : worker[w].pc = "unborn"

\* The coordinator with every key update_title accepts, while nodes stop and
\* start between any two gateway calls, and then one retry thread.
NextDrain ==
    \/ Unstarted /\ WriteCallAny
    \/ WritePrimary
    \/ WriteCentral
    \/ WriterIdle /\ start_automatic_retry
    \/ RetryLoopHead(1)
    \/ ProcessPending(1)
    \/ RetryProbe(1)
    \/ RetryExec(1)
    \/ Unstarted /\ Outage

SpecDrain == Init /\ [][NextDrain]_vars

\* get_pending_summary has returned
Summed == summary.pc = "idle" /\ DOMAIN summary.by_node = Nodes

\* get_pending_summary was not called
Unsummed == summary = IdleSum

\* One get_pending_summary call overlapping with the retry thread: the two
\* interleave at every gateway call while nodes stop and start; the client's
\* coordinator call comes before both.
NextSummary ==
    \/ Unstarted /\ Unsummed /\ calls = <<>> /\ WriteCall
    \/ WritePrimary
    \/ WriteCentral
    \/ start_automatic_retry
    \/ WriterIdle /\ RetryLoopHead(1)
    \/ ProcessPending(1)
    \/ RetryProbe(1)
    \/ RetryExec(1)
    \/ WriterIdle /\ Unsummed /\ get_pending_summary
    \/ SummaryConnect
    \/ SummaryCountPending
    \/ SummaryCountFailed
    \/ SummaryByTarget
    \/ Outage

SpecSummary == Init /\ [][NextSummary]_vars

\* The coordinator and recover_node, called by one client one after the other.
NextRecover ==
    \/ RecoverIdle /\ WriteCall
    \/ WritePrimary
    \/ WriteCentral
    \/ WriterIdle /\ \E n \in Nodes : recover_node(n)
    \/ RecoverFetch
    \/ RecoverProbe
    \/ RecoverExec
    \/ Outage

SpecRecover == Init /\ [][NextRecover]_vars

\* recover_node called twice with nothing in between: once the first call has
\* begun, no coordinator call begins and no node stops or starts.
NotYetRecovered == RecoverIdle /\ recovers = <<>>

NextRecoverTwice ==
    \/ NotYetRecovered /\ WriteCall
    \/ WritePrimary
    \/ WriteCentral
    \/ NotYetRecovered /\ Outage
    \/ WriterIdle /\ \E n \in Nodes : recover_node(n)
    \/ RecoverFetch
    \/ RecoverProbe
    \/ RecoverExec

SpecRecoverTwice == Init /\ [][NextRecoverTwice]_vars

\* recover_node called once after the coordinator calls, with outages at any
\* moment of the calls.
NextRecoverOnce ==
    \/ NotYetRecovered /\ WriteCall
    \/ WritePrimary
    \/ WriteCentral
    \/ Outage
    \/ WriterIdle /\ recovers = <<>> /\ \E n \in Nodes : recover_node(n)
    \/ RecoverFetch
    \/ RecoverProbe
    \/ RecoverExec

SpecRecoverOnce == Init /\ [][NextRecoverOnce]_vars

\* no recovery has begun: no retry thread was created, recover_node was not called
Untouched == RecoverIdle /\ recovers = <<>> /\ \A w \in Workers : worker[w].pc = "unborn"

\* recover_node overlapping with the retry thread: the two interleave at
\* every gateway call; the client's coordinator calls come before both.
NextOverlap ==
    \/ Untouched /\ calls = <<>> /\ WriteCall
    \/ WritePrimary
    \/ WriteCentral
    \/ start_automatic_retry
    \/ WriterIdle /\ RetryLoopHead(1)
    \/ ProcessPending(1)
    \/ RetryProbe(1)
    \/ RetryExec(1)
    \/ WriterIdle /\ recovers = <<>> /\ \E n \in Nodes : recover_node(n)
    \/ RecoverFetch
    \/ RecoverProbe
    \/ RecoverExec
    \/ Outage

SpecOverlap == Init /\ [][NextOverlap]_vars

\* The retry threads that start_automatic_retry and stop_automatic_retry
\* create and stop; the threads interleave at every gateway call, and the
\* client's coordinator calls come before the first thread.
NextThreads ==
    \/ Untouched /\ calls = <<>> /\ WriteCall
    \/ WritePrimary
    \/ WriteCentral
    \/ start_automatic_retry
    \/ stop_automatic_retry
    \/ WriterIdle /\ \E w \in Workers : RetryLoopHead(w)
    \/ \E w \in Workers : ProcessPending(w)
    \/ \E w \in Workers : RetryProbe(w)
    \/ \E w \in Workers : RetryExec(w)
    \/ Outage

SpecThreads == Init /\ [][NextThreads]_vars

\* One coordinator call and one retry thread that is scheduled again and again:
\* the thread is a daemon thread whose loop sleeps retry_interval between two
\* cycles, so a step of it that stays possible is eventually taken.
WorkerStep ==
    \/ WriterIdle /\ RetryLoopHead(1)
    \/ ProcessPending(1)
    \/ RetryProbe(1)
    \/ RetryExec(1)

NextLive ==
    \/ calls = <<>> /\ WriteCall
    \/ WritePrimary
    \/ WriteCentral
    \/ start_automatic_retry
    \/ WorkerStep
    \/ Outage

SpecLive == Init /\ [][NextLive]_vars /\ WF_vars(WorkerStep)

\* The retry threads started and stopped at any moment, each scheduled again
\* and again: a thread that is inside a gateway call gets its answer (or the
\* connector's timeout), and the sleep of a cycle ends.  The coordinator call
\* and the outages come before the first thread.
ThreadStep(w) ==
    \/ RetryLoopHead(w)
    \/ ProcessPending(w)
    \/ RetryProbe(w)
    \/ RetryExec(w)

NextStop ==
    \/ Untouched /\ calls = <<>> /\ WriteCall
    \/ WritePrimary
    \/ WriteCentral
    \/ WriterIdle /\ start_automatic_retry
    \/ stop_automatic_retry
    \/ \E w \in Workers : ThreadStep(w)
    \/ Untouched /\ Outage

SpecStop == Init /\ [][NextStop]_vars /\ \A w \in Workers : WF_vars(ThreadStep(w))

\* One scenario of the harness with its threads scheduled fairly, and outages
\* at any moment.
UpdateLists == UNION {[1..k -> Vals] : k \in 1..MaxUpdates}

HarnessStep ==
    \/ HarnessLaunch
    \/ \E t \in Participants : HarnessArrive(t)
    \/ \E t \in Participants : HarnessOpen(t)
    \/ \E t \in Participants : HarnessTransaction(t)
    \/ HarnessJoin

NextHarness ==
    \/ \E x \in Ids : test_concurrent_reads(x)
    \/ \E x \in Ids, v \in Vals : test_read_write_conflict(x, v)
    \/ \E x \in Ids, u \in UpdateLists : test_concurrent_writes(x, u)
    \/ HarnessStep
    \/ Outage

SpecHarness == Init /\ [][NextHarness]_vars /\ WF_vars(HarnessStep)

\* One call of the coordinator, then one scenario of the harness, and outages
\* at any moment.
NextTested ==
    \/ harness.pc = "idle" /\ calls = <<>> /\ WriteCall
    \/ WritePrimary
    \/ WriteCentral
    \/ WriterIdle /\ \E x \in Ids : test_concurrent_reads(x)
    \/ WriterIdle /\ \E x \in Ids, v \in Vals : test_read_write_conflict(x, v)
    \/ WriterIdle /\ \E x \in Ids, u \in UpdateLists : test_concurrent_writes(x, u)
    \/ HarnessStep
    \/ Outage

SpecTested == Init /\ [][NextTested]_vars

----------------------------------------------------------------------------
(* Properties *)

Last(q) == q[Len(q)]
Fragments == Nodes \ {central_node}

\* the entries of all logs, each as <<node that stores it, position>>
Entries == UNION {{<<n, i>> : i \in 1..Len(transaction_log[n])} : n \in Nodes}
Entry(e) == transaction_log[e[1]][e[2]]
EntriesOf(x) == {e \in Entries : Entry(e).record_id = x}

\* no coordinator call, no recover_node call and no cycle of a retry thread is
\* in progress
Quiet == WriterIdle /\ RecoverIdle /\ AllResting

\* the reconciler has drained the entries of x: none is still PENDING
Drained(x) == \A e \in EntriesOf(x) : Entry(e).status # "PENDING"

Holds(n, x) == x \in DOMAIN titles[n]
HoldsRuntime(n, x, v) == Holds(n, x) /\ titles[n][x].runtime_minutes = v

\* C1: after update_title(x, a) and then update_title(x, b), both successful,
\* once no call is in progress and no entry of x is PENDING, central and the
\* fragment of the row's title_type both hold runtime_minutes = b.
C1_UpdateUpdateConverges ==
    \A x \in Ids, a \in Vals, b \in Vals :
        ( /\ Len(calls) = 2
          /\ calls[1].success /\ calls[1].stmt = UpdateStmt(x, NoKind, a)
          /\ calls[2].success /\ calls[2].stmt = UpdateStmt(x, NoKind, b)
          /\ Quiet
          /\ Drained(x) )
        => /\ HoldsRuntime(central_node, x, b)
           /\ HoldsRuntime(_get_primary_node(titles[central_node][x].title_type), x, b)

\* the log holds a pending entry (PENDING with retries left) of x that targets n
PendingFor(x, n) ==
    \E e \in EntriesOf(x) : Entry(e).target_node = n /\ IsPending(Entry(e))

\* C2: Placement.  Whenever no call or cycle is in progress, for every row
\* stored on any node, central holds a copy with the same payload, or a pending
\* entry that targets central references the row's id.
C2_Placement ==
    Quiet =>
        \A n \in Nodes : \A x \in DOMAIN titles[n] :
            \/ Holds(central_node, x) /\ titles[central_node][x] = titles[n][x]
            \/ PendingFor(x, central_node)

\* C3: Peer coverage.  Whenever no call or cycle is in progress, for every row
\* on central, the fragment of its title_type holds a copy of the row, or a
\* pending entry that targets that fragment references the row's id.
C3_PeerCoverage ==
    Quiet =>
        \A x \in DOMAIN titles[central_node] :
            LET f == _get_primary_node(titles[central_node][x].title_type)
            IN Holds(f, x) \/ PendingFor(x, f)

\* the copies of x on central and on fragment f are equal: both present with
\* the same payload, or both absent
SameCopy(x, f) ==
    IF Holds(central_node, x) THEN Holds(f, x) /\ titles[f][x] = titles[central_node][x]
    ELSE ~Holds(f, x)

\* f is the fragment of a copy of x that some node holds
FragmentOf(x, f) ==
    \/ Holds(central_node, x) /\ f = _get_primary_node(titles[central_node][x].title_type)
    \/ Holds(f, x) /\ f = _get_primary_node(titles[f][x].title_type)

\* C4: whenever no call or cycle is in progress and every log entry that
\* references a row id is SUCCESS, the copies of the row on central and on its
\* fragment are equal.
C4_SuccessRestoresEquality ==
    \A x \in Ids :
        (Quiet /\ \A e \in EntriesOf(x) : Entry(e).status = "SUCCESS")
        => \A f \in Fragments : FragmentOf(x, f) => SameCopy(x, f)

\* C8: after insert_title(x) and then delete_title(x), both successful, once no
\* call or cycle is in progress and the entries of x are drained, neither
\* central nor the fragment holds the row and every entry of x is SUCCESS or
\* FAILED.
C8_InsertDeleteLeavesNoRow ==
    \A x \in Ids :
        ( /\ Len(calls) = 2
          /\ calls[1].success /\ calls[1].stmt.op = "INSERT" /\ calls[1].stmt.tconst = x
          /\ calls[2].success /\ calls[2].stmt = DeleteStmt(x)
          /\ Quiet
          /\ Drained(x) )
        => /\ ~Holds(central_node, x)
           /\ ~Holds(_get_primary_node(calls[1].stmt.title_type), x)
           /\ \A e \in EntriesOf(x) : Entry(e).status \in {"SUCCESS", "FAILED"}

\* C5: the status of a log entry changes only from PENDING: in every step, an
\* entry that is SUCCESS or FAILED keeps its status.
C5_LogStatusMonotone ==
    [][\A n \in Nodes : \A i \in 1..Len(transaction_log[n]) :
          transaction_log[n][i].status # "PENDING"
          => transaction_log'[n][i].status = transaction_log[n][i].status]_vars

\* C6: the retry threads execute the statement of no entry more than the
\* entry's max_retries times.
C6_RetryCap ==
    \A e \in Entries : bg_replays[e[1]][e[2]] <= Entry(e).max_retries

\* C7: a second recover_node(N), called after the first with nothing in
\* between, changes no row and no log entry and returns recovered = 0.
C7_RecoverTwiceIdempotent ==
    [][(Len(recovers) = 1 /\ rec.pc # "idle" /\ rec.node = recovers[1].node)
       => /\ UNCHANGED <<titles, transaction_log>>
          /\ Len(recovers') = 2 => recovers'[2].recovered = 0]_vars

\* C9: a write whose statement fails on the primary fragment and on central
\* returns success = false with 'All target nodes unavailable', and neither of
\* its two execute_query steps changes a row or a log entry.
C9_BothFailedLeavesNothing ==
    [][/\ (req.pc = "primary" /\ req'.pc = "central" /\ ~req'.primary_ok)
          => UNCHANGED <<titles, transaction_log>>
       /\ (/\ req.pc = "central" /\ req'.pc = "idle"
           /\ Last(calls').results = Results("failed", "failed"))
          => /\ ~Last(calls').success
             /\ Last(calls').error = "All target nodes unavailable"
             /\ Last(calls').transaction_id = 0
             /\ UNCHANGED <<titles, transaction_log>>]_vars

\* an update of a row that exists has returned after its statement failed on
\* both nodes
C9_Witness ==
    \E k \in 1..Len(calls) :
        /\ calls[k].stmt.op = "UPDATE"
        /\ calls[k].results = Results("failed", "failed")
        /\ calls[k].error = "All target nodes unavailable"

\* C10: recover_node(N) called while N is offline returns at once with
\* recovered = 0, failed = 0 and the message that N is still offline, and
\* changes no row and no log entry.
C10_RecoverOfflineNoOp ==
    [][LET called == IF rec'.pc # "idle" THEN rec'.node ELSE Last(recovers').node
       IN (/\ rec.pc = "idle"
           /\ <<rec, recovers>>' # <<rec, recovers>>
           /\ ~up[called])
          => /\ rec' = IdleRec
             /\ recovers' = Append(recovers, [node |-> called, recovered |-> 0,
                                              failed |-> 0, message |-> "offline"])
             /\ UNCHANGED <<titles, transaction_log>>]_vars

\* recover_node(N) has returned with N offline while an entry that targets N
\* is still pending
C10_Witness ==
    /\ recovers # <<>>
    /\ Last(recovers).message = "offline"
    /\ ~up[Last(recovers).node]
    /\ \E e \in Entries :
          IsPending(Entry(e)) /\ Entry(e).target_node = Last(recovers).node

----------------------------------------------------------------------------
(* The branches of a coordinator call *)

\* F(kind) of the call in progress: the fragment of the title_type given to an
\* insert, of the title_type central holds for an update or a delete
FragmentFor(s) ==
    IF s.op = "INSERT" THEN _get_primary_node(s.title_type)
    ELSE _get_primary_node(titles[central_node][s.tconst].title_type)

\* the step is the central leg of a call, which returns with these results
ReturnsWith(primary, central) ==
    /\ req.pc = "central" /\ req'.pc = "idle"
    /\ Last(calls').results = Results(primary, central)

\* the step appends exactly one entry, to the log of source: an entry of the
\* call's statement for target with this status; every other entry is unchanged
AppendsOne(source, target, status) ==
    /\ \A n \in Nodes \ {source} : transaction_log'[n] = transaction_log[n]
    /\ Len(transaction_log'[source]) = Len(transaction_log[source]) + 1
    /\ SubSeq(transaction_log'[source], 1, Len(transaction_log[source]))
          = transaction_log[source]
    /\ LET e == Last(transaction_log'[source])
       IN /\ e.source_node = source /\ e.target_node = target
          /\ e.status = status /\ e.retry_count = 0
          /\ e.operation_type = req.stmt.op /\ e.record_id = req.stmt.tconst
          /\ e.stmt = req.stmt

\* C11: when the statement of an insert, update or delete commits on F(kind)
\* and fails on central, the call appends exactly one PENDING entry with source
\* F(kind) and target central and returns success with primary_node = F(kind),
\* pending_replication = central and the id of that entry.
C11_PrimaryOkCentralFailed ==
    [][ReturnsWith("ok", "failed")
       => LET f == FragmentFor(req.stmt)
              r == Last(calls')
          IN /\ AppendsOne(f, central_node, "PENDING")
             /\ r.success /\ r.primary_node = f
             /\ r.pending_replication = central_node /\ r.replicated_to = NoNode
             /\ r.transaction_id = Len(transaction_log'[f])]_vars

\* two calls with different operations have both committed on the fragment
\* and failed on central
C11_Witness ==
    /\ Len(calls) = 2
    /\ calls[1].results = Results("ok", "failed")
    /\ calls[2].results = Results("ok", "failed")
    /\ calls[1].stmt.op # calls[2].stmt.op

\* C12: when the statement fails on F(kind) and commits on central, the call
\* appends exactly one PENDING entry with source central and target F(kind),
\* returns success with primary_node = central and pending_replication =
\* F(kind), and changes rows on central only.
C12_FallbackToCentral ==
    [][/\ (req.pc = "primary" /\ req'.pc = "central" /\ ~req'.primary_ok)
          => titles' = titles
       /\ ReturnsWith("failed", "ok")
          => LET f == FragmentFor(req.stmt)
                 r == Last(calls')
             IN /\ AppendsOne(central_node, f, "PENDING")
                /\ r.success /\ r.primary_node = central_node
                /\ r.pending_replication = f /\ r.replicated_to = NoNode
                /\ r.transaction_id = Len(transaction_log'[central_node])
                /\ \A n \in Fragments : titles'[n] = titles[n]
                /\ titles'[central_node] = ApplyStmt(titles[central_node], req.stmt)]_vars

\* an update has changed the row on central after failing on the fragment, and
\* the fragment still holds the old row
C12_Witness ==
    \E k \in 1..Len(calls) :
        /\ calls[k].stmt.op = "UPDATE"
        /\ calls[k].results = Results("failed", "ok")
        /\ Holds(calls[k].pending_replication, calls[k].stmt.tconst)
        /\ titles[calls[k].pending_replication][calls[k].stmt.tconst]
             # titles[central_node][calls[k].stmt.tconst]

\* C13: when the statement commits on F(kind) and on central, the call appends
\* exactly one SUCCESS entry with source F(kind) and target central and returns
\* success with primary_node = F(kind) and replicated_to = central; for an
\* insert of a movie F(kind) is node2 and the row is then on node2 and node1.
C13_BothCommitted ==
    [][ReturnsWith("ok", "ok")
       => LET s == req.stmt
              f == FragmentFor(s)
              r == Last(calls')
          IN /\ AppendsOne(f, central_node, "SUCCESS")
             /\ r.success /\ r.primary_node = f /\ r.replicated_to = central_node
             /\ r.pending_replication = NoNode
             /\ (s.op = "INSERT" /\ s.title_type = "movie")
                => /\ r.primary_node = "node2"
                   /\ \A n \in {"node1", "node2"} :
                         /\ s.tconst \in DOMAIN titles'[n]
                         /\ titles'[n][s.tconst] =
                               [title_type |-> "movie",
                                runtime_minutes |-> s.runtime_minutes]]_vars

\* an insert of a movie has committed on both nodes
C13_Witness ==
    \E k \in 1..Len(calls) :
        /\ calls[k].stmt.op = "INSERT" /\ calls[k].stmt.title_type = "movie"
        /\ calls[k].results = Results("ok", "ok")
        /\ calls[k].replicated_to = central_node

\* C14: when central rejects an insert with a duplicate key (central is up and
\* holds the id), insert_title returns success = false, whatever the text of
\* the error it reports.
C14_DuplicateKeySurfaced ==
    [][(/\ req.pc = "central" /\ req'.pc = "idle"
        /\ req.stmt.op = "INSERT"
        /\ up[central_node] /\ Holds(central_node, req.stmt.tconst))
       => ~Last(calls').success]_vars

\* the step is an update or a delete that returns before any execute_query
Refused ==
    /\ req.pc = "idle" /\ req'.pc = "idle"
    /\ Len(calls') = Len(calls) + 1

\* C15: update_title and delete_title return 'Title not found' only when no
\* node that is up holds the row, and then change no row and no log entry.
C15_NotFoundOnlyWhenAbsent ==
    [][(Refused /\ Last(calls').error = "Title not found")
       => /\ \A n \in Nodes : up[n] => ~Holds(n, Last(calls').stmt.tconst)
          /\ UNCHANGED <<titles, transaction_log>>]_vars

\* C16: update_title called while central is down and the fragment of the row
\* is up and holds it is not refused: it goes on to the write on the fragment.
C16_UpdateWhileCentralDown ==
    [][(/\ req.pc = "idle" /\ Len(calls') = Len(calls) + 1
        /\ Last(calls').stmt.op = "UPDATE"
        /\ ~up[central_node]
        /\ \E f \in Fragments :
              /\ up[f] /\ Holds(f, Last(calls').stmt.tconst)
              /\ f = _get_primary_node(titles[f][Last(calls').stmt.tconst].title_type))
       => Last(calls').success]_vars

\* C19: when the replay of a PENDING INSERT entry is rejected by a target that
\* is up and already holds the row, the entry becomes SUCCESS.
C19_DuplicateOnReplayIsSuccess ==
    [][\A n \in Nodes : \A i \in 1..Len(transaction_log[n]) :
          LET e == transaction_log[n][i]
          IN (/\ transaction_log'[n][i].retry_count = e.retry_count + 1
              /\ e.status = "PENDING" /\ e.operation_type = "INSERT"
              /\ up[e.target_node] /\ Holds(e.target_node, e.record_id))
             => transaction_log'[n][i].status = "SUCCESS"]_vars

\* the threads that run _retry_loop: created and not yet returned
Running == {w \in Workers : worker[w].pc \notin {"unborn", "exit"}}

\* C20: at most one thread runs _retry_loop at any time.
C20_OneWorker == Cardinality(Running) <= 1

----------------------------------------------------------------------------
(* The first recover_node call of a behaviour in which no retry thread runs:
   an entry with retry_count > 0 is one the call replayed, and an entry that
   targets the node and is PENDING with retry_count = 0 is one it did not *)

FirstRecoverDone ==
    /\ Len(recovers) = 1 /\ RecoverIdle
    /\ recovers[1].message = "complete"

Targeting(n) == {e \in Entries : Entry(e).target_node = n /\ e[1] # n}
\* the entries that were pending for n when the call began
WerePending(n) ==
    {e \in Targeting(n) : Entry(e).retry_count > 0 \/ Entry(e).status = "PENDING"}
\* every statement the call replayed succeeded
ReplaysSucceeded(n) ==
    \A e \in Targeting(n) : Entry(e).retry_count > 0 => Entry(e).status = "SUCCESS"

\* C17, as claimed: if N is online for the whole call and every replayed
\* statement succeeds, recover_node(N) returns recovered = the number of
\* entries of the other nodes' logs that were pending for N, failed = 0, and
\* all of them are SUCCESS afterwards.
C17_RecoverCountsAll ==
    (FirstRecoverDone /\ ReplaysSucceeded(recovers[1].node))
    => /\ recovers[1].recovered = Cardinality(WerePending(recovers[1].node))
       /\ recovers[1].failed = 0
       /\ \A e \in WerePending(recovers[1].node) : Entry(e).status = "SUCCESS"

\* C17, amended: the same, when the other two nodes are online too.
C17_RecoverCountsReachable ==
    (/\ FirstRecoverDone /\ ReplaysSucceeded(recovers[1].node)
     /\ \A n \in Nodes : up[n])
    => /\ recovers[1].recovered = Cardinality(WerePending(recovers[1].node))
       /\ recovers[1].failed = 0
       /\ \A e \in WerePending(recovers[1].node) : Entry(e).status = "SUCCESS"

\* recover_node(node1) has returned recovered = 2 after replaying one entry of
\* node2 and one of node3
C17_Witness ==
    /\ FirstRecoverDone /\ \A n \in Nodes : up[n]
    /\ recovers[1].node = central_node /\ recovers[1].recovered = 2
    /\ \E e \in WerePending(central_node) : e[1] = "node2"
    /\ \E e \in WerePending(central_node) : e[1] = "node3"

----------------------------------------------------------------------------
(* The fallback insert and the retry thread *)

\* the one call so far is an insert that committed on central only, and its
\* entry, the first of central's log, is pending for fragment f
FallbackPending(f) ==
    /\ Len(calls) = 1 /\ Len(transaction_log[central_node]) = 1
    /\ calls[1].stmt.op = "INSERT"
    /\ calls[1].results = Results("failed", "ok")
    /\ calls[1].pending_replication = f
    /\ IsPending(transaction_log[central_node][1])

\* the entry is SUCCESS and the row is on central and on f
FallbackDrained(f) ==
    /\ Len(calls) = 1 /\ Len(transaction_log[central_node]) = 1
    /\ transaction_log[central_node][1].status = "SUCCESS"
    /\ Holds(central_node, calls[1].stmt.tconst)
    /\ Holds(f, calls[1].stmt.tconst)

\* C18, as claimed: after a fallback insert, if the fragment is online and
\* stays online and the retry thread is running, then eventually the entry is
\* SUCCESS and the row is on central and on the fragment.
C18_FallbackInsertDrains ==
    \A f \in Fragments :
        []((FallbackPending(f) /\ [](up[f] /\ is_running)) => <>FallbackDrained(f))

\* C18, amended: the same, if central stays online too.
C18_FallbackInsertDrainsWithCentral ==
    \A f \in Fragments :
        []((FallbackPending(f) /\ [](up[f] /\ up[central_node] /\ is_running))
           => <>FallbackDrained(f))

\* the entry of a fallback insert has been replayed by the retry thread after a
\* replay that failed, and the row is on both nodes
C18_Witness ==
    \E f \in Fragments :
        /\ FallbackDrained(f)
        /\ calls[1].results = Results("failed", "ok")
        /\ bg_replays[central_node][1] = 2

\* ---------------------------------------------------------------------------
\* Cancellation of the retry thread

\* worker w begins the visit of a source node in this step
BeginsVisit(w) ==
    /\ worker'[w].pc = "fetch"
    /\ worker[w].pc # "fetch" \/ worker'[w].src # worker[w].src

\* worker w begins the replay of an entry in this step
BeginsReplay(w) ==
    /\ worker'[w].pc = "probe"
    /\ worker[w].pc # "probe" \/ worker'[w].i # worker[w].i

\* C21: once stop_automatic_retry has cleared the flag, the worker begins no
\* further visit of a source node and no further replay of an entry.
C21_StopIsCooperative ==
    [][~is_running => \A w \in Workers : ~BeginsVisit(w) /\ ~BeginsReplay(w)]_vars

\* ---------------------------------------------------------------------------
\* Order of the replays

\* entry i of node n's log has been replayed on its target by the retry thread
\* and the replay has committed
ReplayCommitted(n, i) ==
    /\ transaction_log[n][i].status = "SUCCESS"
    /\ bg_replays[n][i] >= 1

\* C22: for two entries of one node's log with the same target, the later one
\* is never replayed on the target before the statement of the earlier one has
\* been applied there.
C22_ReplayInAppendOrder ==
    \A n \in Nodes : \A i, j \in 1..Len(transaction_log[n]) :
        (/\ i < j
         /\ transaction_log[n][i].target_node = transaction_log[n][j].target_node
         /\ ReplayCommitted(n, j))
        => transaction_log[n][i].status = "SUCCESS"

\* ---------------------------------------------------------------------------
\* What one coordinator call touches

\* C23: a call appends at most one log entry in total, executes its statement
\* once on F(kind) and once on central, in that order, and never executes on the
\* other fragment; outside these two steps nothing is written.
C23_CallFootprint ==
    [][/\ req' = req =>
            titles' = titles /\ transaction_log' = transaction_log
       /\ (req.pc = "idle" /\ req' # req) =>
            titles' = titles /\ transaction_log' = transaction_log
       /\ (req.pc = "primary" /\ req' # req) =>
            /\ req'.pc = "central"
            /\ \A n \in Nodes \ {FragmentFor(req.stmt)} : titles'[n] = titles[n]
            /\ transaction_log' = transaction_log
       /\ (req.pc = "central" /\ req' # req) =>
            /\ req'.pc = "idle"
            /\ \A n \in Nodes \ {central_node} : titles'[n] = titles[n]
            /\ Entries \subseteq Entries'
            /\ Cardinality(Entries') <= Cardinality(Entries) + 1]_vars

\* two calls have returned, each committed on its fragment and on central, and
\* the logs hold two entries
C23_Witness ==
    /\ Len(calls) = 2
    /\ \A k \in 1..2 : calls[k].results = Results("ok", "ok")
    /\ Cardinality(Entries) = 2
    /\ \E f \in Fragments : Len(transaction_log[f]) = 2

\* ---------------------------------------------------------------------------
\* The logs only grow

\* the fields of a log entry that identify it and that no operation rewrites
Identity(e) ==
    [source_node |-> e.source_node, target_node |-> e.target_node,
     operation_type |-> e.operation_type, record_id |-> e.record_id,
     stmt |-> e.stmt, max_retries |-> e.max_retries]

\* the step is a step of a coordinator call
CoordinatorStep == req' # req \/ calls' # calls

\* C24: no step deletes a log entry or replaces it by another: each node's log
\* keeps every entry it has; and a step of the coordinator leaves every existing
\* entry as it is, status and retry_count included: it only appends.
C24_LogAppendOnly ==
    [][\A n \in Nodes :
          /\ Len(transaction_log'[n]) >= Len(transaction_log[n])
          /\ \A i \in 1..Len(transaction_log[n]) :
                Identity(transaction_log'[n][i]) = Identity(transaction_log[n][i])
          /\ CoordinatorStep =>
                SubSeq(transaction_log'[n], 1, Len(transaction_log[n]))
                    = transaction_log[n]]_vars

\* two calls have each appended an entry to the same log, and the retry thread
\* has replayed the first and counted the retry
C24_Witness ==
    \E n \in Nodes :
        /\ Len(transaction_log[n]) = 2
        /\ bg_replays[n][1] >= 1
        /\ transaction_log[n][1].retry_count >= 1
        /\ Len(calls) = 2

\* ---------------------------------------------------------------------------
\* An entry is written after the commit on its source

\* the step appends an entry to node n's log
Appends(n) == Len(transaction_log'[n]) > Len(transaction_log[n])

\* C25: a log entry is appended only after the statement of the write has
\* committed on the entry's source_node: the entry is in the log of its source;
\* when the source is central the commit is the one of the step that appends,
\* when it is the fragment the commit was made by the fragment leg of the call.
C25_LoggedAfterCommit ==
    [][/\ \A n \in Nodes : Appends(n) =>
            /\ req.pc = "central"
            /\ Last(transaction_log'[n]).source_node = n
            /\ Last(transaction_log'[n]).stmt = req.stmt
            /\ n = central_node =>
                  /\ up[n]
                  /\ titles'[n] = ApplyStmt(titles[n], req.stmt)
            /\ n # central_node => n = req.primary_node /\ req.primary_ok
       /\ (req.pc = "primary" /\ req'.pc = "central" /\ req'.primary_ok) =>
            /\ up[req.primary_node]
            /\ titles'[req.primary_node]
                  = ApplyStmt(titles[req.primary_node], req.stmt)]_vars

\* a PENDING entry in a fragment's log and one in central's log, each for a
\* statement that is committed on the entry's source
C25_Witness ==
    /\ \E f \in Fragments : \E i \in 1..Len(transaction_log[f]) :
          /\ transaction_log[f][i].status = "PENDING"
          /\ transaction_log[f][i].stmt.op = "INSERT"
          /\ Holds(f, transaction_log[f][i].record_id)
    /\ \E i \in 1..Len(transaction_log[central_node]) :
          /\ transaction_log[central_node][i].status = "PENDING"
          /\ transaction_log[central_node][i].stmt.op = "UPDATE"
          /\ HoldsRuntime(central_node, transaction_log[central_node][i].record_id,
                          transaction_log[central_node][i].stmt.runtime_minutes)

\* ---------------------------------------------------------------------------
\* The fragments partition the rows by title_type

\* C26: node2 holds only rows with title_type 'movie' and node3 holds only rows
\* with another title_type.
C26_FragmentsPartitioned ==
    /\ \A x \in DOMAIN titles["node2"] : titles["node2"][x].title_type = "movie"
    /\ \A x \in DOMAIN titles["node3"] : titles["node3"][x].title_type # "movie"

\* the statement is an update_title whose data holds title_type
Retypes(s) == s.op = "UPDATE" /\ s.title_type # NoKind

\* no call so far was an update_title whose data holds title_type
NeverRetyped ==
    /\ ~Retypes(req.stmt)
    /\ \A k \in 1..Len(calls) : ~Retypes(calls[k].stmt)

\* C26, amended: the same, as long as no update_title was given a title_type.
C26_PartitionedUnlessRetyped == NeverRetyped => C26_FragmentsPartitioned

\* each fragment holds a row of the same id, after an insert whose title_type
\* is not the one central holds for the id, and the retry thread has replayed
\* the entry the insert left
C26_Witness ==
    /\ NeverRetyped
    /\ \A f \in Fragments : Holds(f, "tt1")
    /\ \E n \in Nodes : \E i \in 1..Len(transaction_log[n]) : bg_replays[n][i] >= 1

\* ---------------------------------------------------------------------------
\* The probe of the target

\* the entry worker w is at
Current(w) ==
    transaction_log[NodeOrder[worker[w].src]][worker[w].pending[worker[w].i].idx]

\* worker w leaves the probe of an entry whose target is offline
SkipsOffline(w) ==
    /\ worker[w].pc = "probe"
    /\ worker'[w] # worker[w]
    /\ ~up[Current(w).target_node]

\* C28: when the target of an entry is offline at the probe, the retry thread
\* executes nothing, leaves the entry's retry_count and status as they are, and
\* goes on with the next entry of the pass when there is one.
C28_OfflineTargetSkipped ==
    [][\A w \in Workers : SkipsOffline(w) =>
          /\ titles' = titles
          /\ transaction_log' = transaction_log
          /\ bg_replays' = bg_replays
          /\ worker[w].i < Len(worker[w].pending) =>
                /\ worker'[w].pc = "probe"
                /\ worker'[w].i = worker[w].i + 1
                /\ worker'[w].pending = worker[w].pending
                /\ worker'[w].src = worker[w].src]_vars

\* in one log, the first entry has not been replayed, its target being offline,
\* and the second, for another target, has been
C28_Witness ==
    \E n \in Nodes :
        /\ Len(transaction_log[n]) = 2
        /\ ~up[transaction_log[n][1].target_node]
        /\ transaction_log[n][1].status = "PENDING"
        /\ transaction_log[n][1].retry_count = 0
        /\ bg_replays[n][1] = 0
        /\ bg_replays[n][2] >= 1

\* ---------------------------------------------------------------------------
\* The outcome of a replay

\* the step replays entry i of node n's log, which is PENDING, on its target,
\* which is reachable
ReplaysOnReachable(n, i) ==
    /\ bg_replays'[n][i] = bg_replays[n][i] + 1
    /\ transaction_log[n][i].status = "PENDING"
    /\ up[transaction_log[n][i].target_node]

\* C29: a replay of a PENDING entry executed on a reachable target increments its
\* retry_count by exactly one; when it succeeds the entry becomes SUCCESS, when
\* it fails the entry becomes FAILED exactly when the incremented retry_count
\* has reached max_retries, and stays PENDING otherwise.
C29_ReplayOutcome ==
    [][\A n \in Nodes : \A i \in 1..Len(transaction_log[n]) :
          ReplaysOnReachable(n, i) =>
             LET e == transaction_log[n][i]
                 after == transaction_log'[n][i]
             IN /\ after.retry_count = e.retry_count + 1
                /\ IF ExecSuccess(e.target_node, e.stmt)
                   THEN after.status = "SUCCESS"
                   ELSE after.status =
                           IF after.retry_count >= after.max_retries
                           THEN "FAILED" ELSE "PENDING"]_vars

\* ---------------------------------------------------------------------------
\* An UPDATE that matches no row

\* the step replays entry i of node n's log, a PENDING UPDATE whose target is
\* reachable and holds no row of the id
ReplaysUpdateOfNoRow(n, i) ==
    /\ bg_replays'[n][i] = bg_replays[n][i] + 1
    /\ transaction_log[n][i].status = "PENDING"
    /\ transaction_log[n][i].stmt.op = "UPDATE"
    /\ up[transaction_log[n][i].target_node]
    /\ ~Holds(transaction_log[n][i].target_node, transaction_log[n][i].record_id)

\* C30: the replay of an UPDATE that affects no row on the target counts as a
\* success: the entry is marked SUCCESS, and the target is left as it was.
C30_ZeroRowUpdateSucceeds ==
    [][\A n \in Nodes : \A i \in 1..Len(transaction_log[n]) :
          ReplaysUpdateOfNoRow(n, i) =>
             /\ transaction_log'[n][i].status = "SUCCESS"
             /\ titles' = titles]_vars

\* an UPDATE entry is SUCCESS after one replay, and its target holds no row of
\* the id
C30_Witness ==
    \E n \in Nodes : \E i \in 1..Len(transaction_log[n]) :
        /\ transaction_log[n][i].stmt.op = "UPDATE"
        /\ transaction_log[n][i].status = "SUCCESS"
        /\ transaction_log[n][i].retry_count = 1
        /\ bg_replays[n][i] = 1
        /\ ~Holds(transaction_log[n][i].target_node, transaction_log[n][i].record_id)

\* ---------------------------------------------------------------------------
\* What recover_node touches

\* the node of the recover_node call that takes this step
Recovering == IF rec.pc = "idle" THEN rec'.node ELSE rec.node

\* the rows recover_node holds are in the order of the source's log
InLogOrder(pending) ==
    \A j, k \in 1..Len(pending) : j < k => pending[j].idx < pending[k].idx

\* C31: a step of recover_node(N) executes on no node but N, changes no entry
\* but the one it replays, which is in the log of a source other than N and has
\* target N, and takes the entries of a source in the order of its log.
C31_RecoverFrame ==
    [][rec' # rec =>
          /\ \A n \in Nodes \ {Recovering} : titles'[n] = titles[n]
          /\ transaction_log'[Recovering] = transaction_log[Recovering]
          /\ \A n \in Nodes : \A i \in 1..Len(transaction_log[n]) :
                transaction_log'[n][i] # transaction_log[n][i] =>
                   /\ rec.pc = "exec"
                   /\ n = NodeOrder[rec.src] /\ n # rec.node
                   /\ i = rec.pending[rec.i].idx
                   /\ transaction_log[n][i].target_node = rec.node
          /\ InLogOrder(rec.pending)
          /\ (rec.pc # "idle" /\ rec'.pc # "idle" /\ rec'.src = rec.src) =>
                rec'.i >= rec.i]_vars

\* recover_node(N) has returned after it replayed an entry for N, and an entry
\* for another node is as it was appended
C31_Witness ==
    /\ Len(recovers) = 1
    /\ recovers[1].recovered = 1
    /\ \E e \in Entries :
          /\ Entry(e).target_node = recovers[1].node
          /\ Entry(e).status = "SUCCESS" /\ Entry(e).retry_count = 1
    /\ \E e \in Entries :
          /\ Entry(e).target_node # recovers[1].node
          /\ Entry(e).status = "PENDING" /\ Entry(e).retry_count = 0

\* ---------------------------------------------------------------------------
\* The report of get_pending_summary

RECURSIVE SumOver(_, _)
\* the sum of f over the set S of its arguments
SumOver(f, S) ==
    IF S = {} THEN 0
    ELSE LET x == CHOOSE y \in S : TRUE IN f[x] + SumOver(f, S \ {x})

\* the sources the report gives as online
ReportedOnline == {n \in Nodes : summary.by_node[n].status = "online"}

\* the report's entry of n is what n's log holds
MatchesLog(n) ==
    /\ summary.by_node[n].pending_count = CountPending(n)
    /\ summary.by_node[n].failed_count = CountFailed(n)
    /\ summary.by_node[n].pending_by_target = PendingByTarget(n)

\* what the report says whatever happened during the call: offline sources
\* have counts 0, total_pending is the sum over the online sources, and the
\* entry of an online source whose log did not change during the call is what
\* the log holds
ReportSound ==
    /\ \A n \in Nodes :
          /\ summary.by_node[n].status \in {"online", "offline", "error"}
          /\ summary.by_node[n].status = "offline" =>
                summary.by_node[n].pending_count = 0
                   /\ summary.by_node[n].failed_count = 0
          /\ (n \in ReportedOnline /\ transaction_log[n] = summary.began[n]) =>
                MatchesLog(n)
    /\ summary.total_pending =
          SumOver([n \in ReportedOnline |-> summary.by_node[n].pending_count],
                  ReportedOnline)

\* pending_by_target of the entry of n sums to its pending_count
TargetsSumToCount(n) ==
    SumOver(summary.by_node[n].pending_by_target,
            DOMAIN summary.by_node[n].pending_by_target)
       = summary.by_node[n].pending_count

\* C32, as claimed: the report of get_pending_summary is sound, and for every
\* online source pending_by_target sums to pending_count.
C32_SummaryReport ==
    Summed => ReportSound /\ \A n \in ReportedOnline : TargetsSumToCount(n)

\* C32, amended: the report is sound, and pending_by_target sums to
\* pending_count for every online source whose log did not change during the call.
C32_SummaryReportQuiet ==
    Summed =>
       /\ ReportSound
       /\ \A n \in ReportedOnline :
             transaction_log[n] = summary.began[n] => TargetsSumToCount(n)

\* a report with an offline source, a source whose query raised, and an
\* online source with a pending entry for one target, whose log did not change
\* during the call
C32_Witness ==
    /\ Summed
    /\ \E n \in Nodes : summary.by_node[n].status = "offline"
    /\ \E n \in Nodes : summary.by_node[n].status = "error"
    /\ \E n \in ReportedOnline :
          /\ transaction_log[n] = summary.began[n]
          /\ summary.by_node[n].pending_count = 1
          /\ Cardinality(DOMAIN summary.by_node[n].pending_by_target) = 1
          /\ summary.total_pending = 1

\* ---------------------------------------------------------------------------
\* The two legs of a coordinator call

\* table t after at most one execution of statement s
OnceOrNot(t, s) == {t, ApplyStmt(t, s)}

\* C33: a call executes its statement once on the fragment, and then, with the
\* result of that execution in hand, once on central, and returns; it goes
\* back to neither leg, whatever the results were.
C33_SequentialNoRetry ==
    [][/\ (req.pc = "primary" /\ req' # req) =>
            /\ req'.pc = "central"
            /\ req'.stmt = req.stmt /\ req'.primary_node = req.primary_node
            /\ req'.primary_ok = ExecSuccess(req.primary_node, req.stmt)
            /\ titles'[req.primary_node]
                  \in OnceOrNot(titles[req.primary_node], req.stmt)
            /\ titles'[central_node] = titles[central_node]
            /\ calls' = calls
       /\ (req.pc = "central" /\ req' # req) =>
            /\ req' = IdleReq
            /\ titles'[central_node] \in OnceOrNot(titles[central_node], req.stmt)
            /\ \A f \in Fragments : titles'[f] = titles[f]
            /\ Len(calls') = Len(calls) + 1
            /\ Last(calls').results.primary = OkOrFailed(req.primary_ok)
       /\ (req'.pc = "central" /\ req' # req) => req.pc = "primary"
       /\ (req'.pc = "primary" /\ req' # req) => req.pc = "idle"]_vars

\* an insert has returned with the fragment leg failed and the central leg
\* committed, the fragment is online again, and it holds no row of the id
C33_Witness ==
    /\ Len(calls) >= 1
    /\ Last(calls).stmt.op = "INSERT"
    /\ Last(calls).results = Results("failed", "ok")
    /\ up[Last(calls).pending_replication]
    /\ ~Holds(Last(calls).pending_replication, Last(calls).stmt.tconst)

\* the participants that have left start_barrier.wait()
PastBarrier == At("passed") \cup At("session") \cup At("done")
\* the participants that have not yet called start_barrier.wait()
NotArrived == At("new") \cup At("started")
PartiesMatch == harness.pc = "launch" => harness.parties = Len(harness.participants)
NoneEarly == PastBarrier # {} => NotArrived = {}

\* C34: in each scenario of the harness the barrier is created for as many
\* parties as participant threads are launched, no participant is past the
\* barrier (so none has opened its session) while another has not arrived at
\* it, and every scenario that launches its threads returns from its joins.
C34_BarrierRendezvous ==
    /\ [](PartiesMatch /\ NoneEarly)
    /\ [](harness.pc = "launch" => <>(harness.pc = "returned"))

\* the two writers and the two readers of the read/write scenario all hold
\* their sessions at once
C34_Witness ==
    /\ harness.scenario = "read_write"
    /\ At("session") = 1..4

\* a step of the harness: a scenario begins, one of its threads moves, or it returns
HarnessActs == harness' # harness

\* C35: no step of the harness calls the coordinator (no call of insert_title,
\* update_title or delete_title begins, advances or returns) and none appends
\* to a log or changes an entry, whatever its writers write to the rows.
C35_HarnessBypassesCoordinator ==
    [][HarnessActs => UNCHANGED <<transaction_log, req, calls>>]_vars

\* the write scenario has returned with its writers' runtime on central and
\* on the fragment, the coordinator was never called and every log is empty
C35_Witness ==
    /\ harness.pc = "returned"
    /\ harness.scenario = "writes"
    /\ calls = <<>> /\ req = IdleReq
    /\ "tt1" \in DOMAIN titles[central_node] \cap DOMAIN titles["node2"]
    /\ titles[central_node]["tt1"].runtime_minutes = 2
    /\ titles["node2"]["tt1"].runtime_minutes = 2
    /\ \A n \in Nodes : transaction_log[n] = <<>>

\* no retry thread is inside its loop
NoThreadAlive == \A w \in Workers : worker[w].pc \in {"unborn", "exit"}

\* C36: if from some moment on the running flag stays cleared (stop was
\* called and start is not called again), then from some moment on every
\* retry thread has left its loop, and a thread that has left its loop stays
\* out of it, so it replays nothing more.
C36_StopEndsWorker == <>[](~is_running) => <>[]NoThreadAlive

\* a thread that replayed an entry has left its loop after a stop
C36_Witness ==
    /\ ~is_running
    /\ worker[1].pc = "exit"
    /\ \E n \in Nodes : \E i \in DOMAIN bg_replays[n] : bg_replays[n][i] > 0

\* the step returns a call as replicated to central (the SUCCESS audit entry)
ReturnsReplicated ==
    /\ req.pc = "central" /\ req'.pc = "idle"
    /\ Last(calls').success
    /\ Last(calls').replicated_to = central_node

\* C37: when a call returns success with replicated_to = central, right after
\* the call central and the fragment the call wrote hold identical copies of
\* the row for an insert or update, and neither holds the row for a delete.
C37_ReplicatedMeansEqual ==
    [][ReturnsReplicated =>
        LET c == Last(calls')
            x == c.stmt.tconst
        IN IF c.stmt.op = "DELETE"
           THEN x \notin DOMAIN titles'[central_node] /\ x \notin DOMAIN titles'[c.primary_node]
           ELSE /\ x \in DOMAIN titles'[central_node] \cap DOMAIN titles'[c.primary_node]
                /\ titles'[central_node][x] = titles'[c.primary_node][x]]_vars

\* C38: in every reachable state every log entry has retry_count <=
\* max_retries, also when recover_node overlaps with the retry thread on the
\* same source log.
C38_RetryCountCapped ==
    \A e \in Entries : Entry(e).retry_count <= Entry(e).max_retries

\* the step is a replay of entry i of n, by a retry thread or by recover_node,
\* whose statement commits on the target
ReplaySucceeds(n, i) ==
    /\ transaction_log'[n][i].retry_count = transaction_log[n][i].retry_count + 1
    /\ ExecSuccess(transaction_log[n][i].target_node, transaction_log[n][i].stmt)

\* C39: recovery executes the statement of a log entry successfully on its
\* target at most once: no replay commits the statement of an entry that an
\* earlier replay has already made SUCCESS, also when recover_node and the
\* retry thread process the same source log concurrently.
C39_ReplayedOnce ==
    [][\A n \in Nodes : \A i \in 1..Len(transaction_log[n]) :
          ReplaySucceeds(n, i) => transaction_log[n][i].status # "SUCCESS"]_vars

\* C40: every entry the coordinator appends has a source different from its
\* target, the two being central and the fragment of the row's title_type:
\* the source is the fragment when the fragment leg committed and central on
\* the fallback path; no entry has a fragment as source and target, and none
\* names the fragment of the other title_type.
C40_EntryEndpoints ==
    [][\A n \in Nodes : (CoordinatorStep /\ Appends(n)) =>
          LET e == Last(transaction_log'[n])
              f == FragmentFor(req.stmt)
          IN /\ e.source_node # e.target_node
             /\ {e.source_node, e.target_node} = {central_node, f}
             /\ e.source_node = (IF req.primary_ok THEN f ELSE central_node)]_vars

\* an update of a movie whose fragment leg failed left an entry from central
\* to node2, and an insert of a short title that central rejected left one
\* from node3 to central
C40_Witness ==
    /\ \E i \in DOMAIN transaction_log[central_node] :
          /\ transaction_log[central_node][i].target_node = "node2"
          /\ transaction_log[central_node][i].stmt.op = "UPDATE"
    /\ \E i \in DOMAIN transaction_log["node3"] :
          /\ transaction_log["node3"][i].target_node = central_node
          /\ transaction_log["node3"][i].stmt.op = "INSERT"

====
